---- MODULE Spec2Model ----
(***************************************************************************)
(* YouTube ad revenue predictor: the two Streamlit scripts                 *)
(* src/yt_streamlit.py and src/yt_streamlit1.py as one state machine.      *)
(*                                                                         *)
(* A Streamlit script is rerun from top to bottom on every operator        *)
(* interaction; what survives between runs is the widget state and         *)
(* st.session_state.  One action of the model is one interaction together  *)
(* with the whole script run it triggers.                                  *)
(*                                                                         *)
(* Conventions                                                             *)
(*   - a Python str is a sequence of one-character strings;                *)
(*   - Python None / an absent dict key is None == << >>, a present value  *)
(*     v is Some(v) == << v >>;                                            *)
(*   - a Python float is an exact rational [num, den] in lowest terms      *)
(*     (rounding of binary floating point is not modelled).                *)
(***************************************************************************)
EXTENDS Integers, Sequences, FiniteSets, TLC

VARIABLES
    script,       \* which of the two scripts this process runs
    mode,         \* yt_streamlit1: st.radio "Select Input Mode"
    widgets,      \* yt_streamlit: values held by the nine input widgets
    video_stats,  \* yt_streamlit1: st.session_state["video_stats"], None when absent
    selCountry,   \* yt_streamlit1: widget state of the country selectbox (None: not on the page)
    selCategory,  \* yt_streamlit1: widget state of the category selectbox
    selDevice,    \* yt_streamlit1: widget state of the device selectbox
    event,        \* the interaction that triggered the latest script run
    messages,     \* st.error / st.info / st.success shown by the latest run, in order
    calls,        \* the records handed to model.predict by the latest run, in order
    fetched,      \* history: the numeric fields get_video_stats returned at the latest successful fetch
    input,        \* argument of a helper function under test (helper specifications)
    output        \* None until applied, then Some(result)

vars == << script, mode, widgets, video_stats, selCountry, selCategory, selDevice,
           event, messages, calls, fetched, input, output >>

appVars == << script, mode, widgets, video_stats, selCountry, selCategory, selDevice,
              event, messages, calls, fetched >>

-----------------------------------------------------------------------------
(* Bounds of the model *)

\* largest value the operator types into views / likes / comments
MaxCount == 1

\* largest counter value the remote API reports in the helper specification
MaxStat == 11

\* number of pieces an input URL is assembled from
MaxUrlTokens == 5

\* number of pieces an input duration string is assembled from
MaxDurTokens == 4

-----------------------------------------------------------------------------
(* Python values *)

None == << >>

Some(v) == << v >>

IsNone(o) == o = << >>

Get(o) == o[1]

\* d.get(key, default) on a dict whose absent keys map to None
DictGet(d, key, default) == IF IsNone(d[key]) THEN default ELSE Get(d[key])

Abs(n) == IF n < 0 THEN -n ELSE n

RECURSIVE GCD(_, _)
GCD(a, b) == IF b = 0 THEN a ELSE GCD(b, a % b)

\* the exact quotient n / d, d > 0, in lowest terms
Rat(n, d) ==
    LET g == GCD(Abs(n), d)
    IN  [num |-> n \div g, den |-> d \div g]

Zero == [num |-> 0, den |-> 1]

RatOfInt(n) == [num |-> n, den |-> 1]

RatNonNeg(r) == r.num >= 0 /\ r.den > 0

Digits == {"0", "1", "2", "3", "4", "5", "6", "7", "8", "9"}

Upper == {"A", "B", "C", "D", "E", "F", "G", "H", "I", "J", "K", "L", "M",
          "N", "O", "P", "Q", "R", "S", "T", "U", "V", "W", "X", "Y", "Z"}

Lower == {"a", "b", "c", "d", "e", "f", "g", "h", "i", "j", "k", "l", "m",
          "n", "o", "p", "q", "r", "s", "t", "u", "v", "w", "x", "y", "z"}

DigitVal(c) ==
    CASE c = "0" -> 0 [] c = "1" -> 1 [] c = "2" -> 2 [] c = "3" -> 3 [] c = "4" -> 4
      [] c = "5" -> 5 [] c = "6" -> 6 [] c = "7" -> 7 [] c = "8" -> 8 [] c = "9" -> 9

DigitChar(n) ==
    CASE n = 0 -> "0" [] n = 1 -> "1" [] n = 2 -> "2" [] n = 3 -> "3" [] n = 4 -> "4"
      [] n = 5 -> "5" [] n = 6 -> "6" [] n = 7 -> "7" [] n = 8 -> "8" [] n = 9 -> "9"

IsDigits(s) == Len(s) > 0 /\ \A i \in 1..Len(s) : s[i] \in Digits

RECURSIVE DigitsValue(_)
DigitsValue(s) ==
    IF Len(s) = 0 THEN 0
    ELSE 10 * DigitsValue(SubSeq(s, 1, Len(s) - 1)) + DigitVal(s[Len(s)])

\* str(n) for a natural number n, as the remote API renders its counters
RECURSIVE NatToStr(_)
NatToStr(n) == IF n < 10 THEN << DigitChar(n) >> ELSE NatToStr(n \div 10) \o << DigitChar(n % 10) >>

\* int(s) of a str: a str that is no decimal numeral raises ValueError (None)
PyInt(s) == IF IsDigits(s) THEN Some(DigitsValue(s)) ELSE None

\* int(d.get(key, 0)) on a dict whose absent keys map to None
GetInt(d, key) == IF IsNone(d[key]) THEN Some(0) ELSE PyInt(Get(d[key]))

RECURSIVE Concat(_)
Concat(ss) == IF Len(ss) = 0 THEN << >> ELSE Head(ss) \o Concat(Tail(ss))

\* all sequences of at most n elements of S
SeqsUpTo(S, n) == UNION { [1..k -> S] : k \in 0..n }

-----------------------------------------------------------------------------
(* extract_video_id: re.search(r"(?:v=|\/)([0-9A-Za-z_-]{11}).*", url) *)

IdLen == 11

IdChars == Digits \cup Upper \cup Lower \cup {"_", "-"}

\* length of the (?:v=|\/) prefix matched at position i, 0 when neither matches
PrefixAt(url, i) ==
    IF url[i] = "v" /\ i + 1 <= Len(url) /\ url[i + 1] = "="
    THEN 2
    ELSE IF url[i] = "/" THEN 1 ELSE 0

\* the pattern matches with its first character at position i; the trailing
\* .* matches any rest
MatchesAt(url, i) ==
    LET p == PrefixAt(url, i)
    IN  /\ p > 0
        /\ i + p + IdLen - 1 <= Len(url)
        /\ \A j \in 0..(IdLen - 1) : url[i + p + j] \in IdChars

\* re.search returns the leftmost match; group(1) is the 11 characters
extract_video_id(url) ==
    LET hits == { i \in 1..Len(url) : MatchesAt(url, i) }
    IN  IF hits = {} THEN None
        ELSE LET i == CHOOSE h \in hits : \A k \in hits : h <= k
                 p == PrefixAt(url, i)
             IN  Some(SubSeq(url, i + p, i + p + IdLen - 1))

-----------------------------------------------------------------------------
(* parse_duration: isodate.parse_duration(duration).total_seconds() / 60   *)
(*                                                                         *)
(* isodate matches the string against                                      *)
(*   ^([+-])?P(?!\b)(nY)?(nM)?(nW)?(nD)?(T(nH)?(nM)?(nS)?)?$               *)
(* with n = [0-9]+([,.][0-9]+)?.  The strings of the model hold neither    *)
(* ',' nor '.', so n is a run of digits; and no string of the model is     *)
(* accepted by the alternative PYYYY-MM-DDThh:mm:ss form isodate tries     *)
(* when the pattern fails, so a failed match raises.                       *)

WordChars == Digits \cup Upper \cup Lower \cup {"_"}

\* the position after the maximal run of digits starting at i
RECURSIVE DigitsEnd(_, _)
DigitsEnd(s, i) == IF i <= Len(s) /\ s[i] \in Digits THEN DigitsEnd(s, i + 1) ELSE i

\* the optional group [0-9]+<unit> at position i: its value and the position after it
Group(s, i, unit) ==
    LET j == DigitsEnd(s, i)
    IN  IF j > i /\ j <= Len(s) /\ s[j] = unit
        THEN [val |-> DigitsValue(SubSeq(s, i, j - 1)), next |-> j + 1]
        ELSE [val |-> 0, next |-> i]

\* isodate.parse_duration(s).total_seconds(): Some(seconds), None when it raises.
\* Years and months make the result an isodate.Duration, whose total_seconds()
\* is that of its timedelta part (weeks, days, hours, minutes, seconds).
isodate_total_seconds(s) ==
    LET signed == Len(s) >= 1 /\ s[1] \in {"+", "-"}
        p      == IF signed THEN 2 ELSE 1
        y      == Group(s, p + 1, "Y")
        mo     == Group(s, y.next, "M")
        w      == Group(s, mo.next, "W")
        d      == Group(s, w.next, "D")
        hasT   == d.next <= Len(s) /\ s[d.next] = "T"
        h      == Group(s, d.next + 1, "H")
        mi     == Group(s, h.next, "M")
        se     == Group(s, mi.next, "S")
        stop   == IF hasT THEN se.next ELSE d.next
        secs   == ((w.val * 7 + d.val) * 24 + (IF hasT THEN h.val ELSE 0)) * 3600
                  + (IF hasT THEN mi.val * 60 + se.val ELSE 0)
    IN  IF /\ p <= Len(s) /\ s[p] = "P"
           /\ p + 1 <= Len(s) /\ s[p + 1] \in WordChars
           /\ stop = Len(s) + 1
        THEN Some(IF signed /\ s[1] = "-" THEN -secs ELSE secs)
        ELSE None

\* try: return dur.total_seconds() / 60   except: return 0
parse_duration(duration) ==
    LET t == isodate_total_seconds(duration)
    IN  IF IsNone(t) THEN Zero ELSE Rat(Get(t), 60)

-----------------------------------------------------------------------------
(* Engagement rate *)

\* yt_streamlit.py: (likes + comments) / views if views > 0 else 0
engagement_rate(likes, comments, views) ==
    IF views > 0 THEN Rat(likes + comments, views) ELSE Zero

StatKeys == {"viewCount", "likeCount", "commentCount"}

\* calc_engagement_rate without the guard on views: a mutation
calc_engagement_rate_unguarded(stats) ==
    LET views    == GetInt(stats, "viewCount")
        likes    == GetInt(stats, "likeCount")
        comments == GetInt(stats, "commentCount")
    IN  IF IsNone(views) \/ IsNone(likes) \/ IsNone(comments) THEN None
        ELSE Some(Rat(Get(likes) + Get(comments), IF Get(views) > 0 THEN Get(views) ELSE 1))

\* calc_engagement_rate(stats): None when an int() raises
calc_engagement_rate(stats) ==
    LET views    == GetInt(stats, "viewCount")
        likes    == GetInt(stats, "likeCount")
        comments == GetInt(stats, "commentCount")
    IN  IF IsNone(views) \/ IsNone(likes) \/ IsNone(comments) THEN None
        ELSE Some(IF Get(views) > 0
                  THEN Rat(Get(likes) + Get(comments), Get(views))
                  ELSE Zero)

-----------------------------------------------------------------------------
(* Category translation *)

Categories == {"Gaming", "Education", "Tech", "Entertainment", "Lifestyle", "Music"}

Devices == {"Mobile", "Desktop", "TV", "Tablet"}

Countries == {"US", "IN", "UK", "CA", "AU", "DE"}

category_map ==
    [c \in {"1", "2", "10", "20", "22", "23", "24", "27", "28"} |->
        CASE c = "1"  -> "Entertainment"
          [] c = "2"  -> "Tech"
          [] c = "10" -> "Music"
          [] c = "20" -> "Gaming"
          [] c = "22" -> "Lifestyle"
          [] c = "23" -> "Entertainment"
          [] c = "24" -> "Entertainment"
          [] c = "27" -> "Education"
          [] c = "28" -> "Tech"]

\* a translation that passes unknown codes through: a mutation
translate_category_passthrough(cat_id) ==
    IF cat_id \in DOMAIN category_map THEN category_map[cat_id] ELSE cat_id

\* category_map.get(cat_id, "Entertainment")
translate_category(cat_id) ==
    IF cat_id \in DOMAIN category_map THEN category_map[cat_id] ELSE "Entertainment"

-----------------------------------------------------------------------------
(* Remote statistics lookup *)

FeatureNames == {"views", "likes", "comments", "watch_time_minutes",
                 "video_length_minutes", "subscribers", "category", "device",
                 "country", "engagement_rate"}

\* What videos().list(...).execute() does: raises, returns no items, or returns
\* one item.  statistics maps each counter to its str, or None when absent.
VideoItem(viewCount, likeCount, commentCount, categoryId, hasChannel, duration) ==
    [kind       |-> "item",
     statistics |-> [k \in StatKeys |->
                        CASE k = "viewCount"    -> viewCount
                          [] k = "likeCount"    -> likeCount
                          [] k = "commentCount" -> commentCount],
     categoryId |-> categoryId,
     channelId  |-> hasChannel,
     duration   |-> duration]

NoVideo(kind) ==
    [kind |-> kind, statistics |-> [k \in StatKeys |-> None], categoryId |-> None,
     channelId |-> FALSE, duration |-> << >>]

VideoResponses ==
    { NoVideo("raise"), NoVideo("empty") }
    \cup { VideoItem(Some(<<"4">>), Some(<<"1">>), Some(<<"2">>), cat, TRUE,
                     <<"P", "T", "5", "M", "3", "0", "S">>)
           : cat \in {Some("20"), Some("99")} }
    \cup { VideoItem(Some(<<"0">>), Some(<<"1">>), None, None, FALSE, << >>),
           VideoItem(Some(<<"n", "/", "a">>), Some(<<"1">>), Some(<<"3">>), Some("10"), TRUE,
                     <<"P", "T", "1", "H">>) }

\* What channels().list(...).execute() does
ChannelItem(subscriberCount, country) ==
    [kind |-> "item", subscriberCount |-> subscriberCount, country |-> country]

ChannelResponses ==
    { [kind |-> "raise", subscriberCount |-> None, country |-> None],
      [kind |-> "empty", subscriberCount |-> None, country |-> None],
      ChannelItem(None, None),
      ChannelItem(None, Some("IN")),
      ChannelItem(Some(<<"7">>), Some("FR")) }

ApiResponses == [video : VideoResponses, channel : ChannelResponses]

\* the dict literal of get_video_stats
BuildFeatureDict(views, likes, comments, length, rate, subscribers, category, country) ==
    [views                |-> views,
     likes                |-> likes,
     comments             |-> comments,
     watch_time_minutes   |-> views * 5,
     video_length_minutes |-> length,
     engagement_rate      |-> rate,
     subscribers          |-> subscribers,
     category             |-> category,
     country              |-> country,
     device               |-> "Mobile"]

\* get_video_stats(video_id) against the remote answers api: the dict it returns
\* (None for None) and the st.error it shows.  Every exception raised inside
\* (transport, int() of a malformed counter) is caught at the end of the function.
get_video_stats(video_id, api) ==
    LET v        == api.video
        c        == api.channel
        queried  == v.kind = "item" /\ v.channelId
        hasInfo  == queried /\ c.kind = "item"
        subs     == IF hasInfo THEN GetInt(c, "subscriberCount") ELSE Some(0)
        country  == IF hasInfo THEN DictGet(c, "country", "US") ELSE "US"
        views    == GetInt(v.statistics, "viewCount")
        likes    == GetInt(v.statistics, "likeCount")
        comments == GetInt(v.statistics, "commentCount")
        rate     == calc_engagement_rate(v.statistics)
        raised   == \/ v.kind = "raise"
                    \/ v.kind = "item" /\ \/ queried /\ c.kind = "raise"
                                          \/ IsNone(subs) \/ IsNone(views) \/ IsNone(likes)
                                          \/ IsNone(comments) \/ IsNone(rate)
    IN  IF raised THEN [data |-> None, shown |-> <<"api_error">>]
        ELSE IF v.kind = "empty" THEN [data |-> None, shown |-> << >>]
        ELSE [data  |-> Some(BuildFeatureDict(Get(views), Get(likes), Get(comments),
                                              parse_duration(v.duration), Get(rate), Get(subs),
                                              DictGet(v, "categoryId", "22"), country)),
              shown |-> << >>]

-----------------------------------------------------------------------------
(* Streamlit widgets *)

Range(f) == { f[i] : i \in DOMAIN f }

\* list.index(v), zero-based
IndexOf(options, v) == (CHOOSE i \in 1..Len(options) : options[i] = v) - 1

\* st.selectbox(label, options, index=idx).  The widget's identity is derived
\* from its arguments, index included: the state w the browser sent belongs to
\* this call only if it was created with the same index; otherwise the call
\* creates a fresh widget showing options[idx].
selectbox(w, options, idx) ==
    IF ~IsNone(w) /\ Get(w).index = idx
    THEN Get(w)
    ELSE [index |-> idx, value |-> options[idx + 1]]

\* the operator picks v in a selectbox that is on the page
Pick(w, v) == Some([index |-> Get(w).index, value |-> v])

CategoryOptions0 == <<"Gaming", "Education", "Tech", "Entertainment", "Lifestyle", "Music">>
DeviceOptions0 == <<"Mobile", "Desktop", "TV", "Tablet">>
CountryOptions0 == <<"US", "IN", "CA", "UK", "DE", "AU">>

ManualCategoryOptions == <<"Education", "Entertainment", "Gaming", "Tech", "Music", "Lifestyle">>
ManualCountryOptions == <<"IN", "CA", "UK", "US", "DE", "AU">>
ManualDeviceOptions == <<"Mobile", "Desktop", "Tablet", "TV">>

LinkCountryOptions == <<"US", "IN", "UK", "CA", "AU", "DE">>
LinkCategoryOptions == <<"Education", "Entertainment", "Gaming", "Tech", "Music", "Lifestyle">>
LinkDeviceOptions == <<"Mobile", "Desktop", "Tablet", "TV">>

-----------------------------------------------------------------------------
(* yt_streamlit1.py, link mode: the customization step and the prediction *)

\* step 3 with the overrides written nowhere: a mutation
CustomizeKeepFetched(stats, wCountry, wCategory, wDevice) ==
    [stats    |-> stats,
     country  |-> selectbox(wCountry, LinkCountryOptions, 0),
     category |-> selectbox(wCategory, LinkCategoryOptions, 1),
     device   |-> selectbox(wDevice, LinkDeviceOptions, 0)]

\* step 3 recomputing the watch time from the selection: a mutation
CustomizeTouchCounters(stats, wCountry, wCategory, wDevice) ==
    LET device == selectbox(wDevice, LinkDeviceOptions, 0)
    IN  [stats    |-> [stats EXCEPT !.device = device.value,
                                    !.watch_time_minutes =
                                       stats.views * (5 + IndexOf(LinkDeviceOptions, device.value))],
         country  |-> selectbox(wCountry, LinkCountryOptions, 0),
         category |-> selectbox(wCategory, LinkCategoryOptions, 1),
         device   |-> device]

\* "if video_stats in st.session_state": the three selectboxes, prefilled from
\* the stored dict, and the stored dict updated in place with what they return.
\* Gives the dict after the update and the state of the three widgets.
Customize(stats, wCountry, wCategory, wDevice) ==
    LET countryIdx  == IF stats.country \notin Range(LinkCountryOptions) THEN 0
                       ELSE IndexOf(LinkCountryOptions, stats.country)
        categoryIdx == IF stats.category \in Range(LinkCategoryOptions)
                       THEN IndexOf(LinkCategoryOptions, stats.category)
                       ELSE 1
        country     == selectbox(wCountry, LinkCountryOptions, countryIdx)
        category    == selectbox(wCategory, LinkCategoryOptions, categoryIdx)
        device      == selectbox(wDevice, LinkDeviceOptions, 0)
    IN  [stats    |-> [stats EXCEPT !.country  = country.value,
                                    !.category = category.value,
                                    !.device   = device.value],
         country  |-> country,
         category |-> category,
         device   |-> device]

\* a prediction that drops the stored dict: a mutation
AfterPredictDiscard(stats) == None

\* what st.session_state["video_stats"] holds once the Predict Revenue branch
\* has run on the dict stats: the branch reads it and deletes nothing
AfterPredict(stats) == Some(stats)

\* a failed submission that clears the session: a mutation
OnFetchFailureClear(stored) == None

\* what the session holds after the branches that only show st.error (no video
\* id in the URL, or get_video_stats returned None): nothing is assigned
OnFetchFailure(stored) == stored

\* The rest of a link-mode run after the fetch form: stored is what the session
\* holds at that point, wCountry/wCategory/wDevice the widget state the browser
\* sent, clicked whether the Predict Revenue button triggered the run.
LinkRest(stored, wCountry, wCategory, wDevice, clicked, shown) ==
    IF IsNone(stored)
    THEN /\ video_stats' = None
         /\ selCountry' = None /\ selCategory' = None /\ selDevice' = None
         /\ calls' = << >>
         /\ messages' = shown
    ELSE LET r == Customize(Get(stored), wCountry, wCategory, wDevice)
         IN  /\ selCountry' = Some(r.country)
             /\ selCategory' = Some(r.category)
             /\ selDevice' = Some(r.device)
             /\ IF clicked
                THEN /\ calls' = << r.stats >>
                     /\ video_stats' = AfterPredict(r.stats)
                     /\ messages' = shown \o <<"prediction">>
                ELSE /\ calls' = << >>
                     /\ video_stats' = Some(r.stats)
                     /\ messages' = shown

-----------------------------------------------------------------------------
(* Inputs of the operator *)

Counts == 0..MaxCount

\* minutes typed into the watch time and video length inputs
MinuteValues == {0, 5}

\* what the operator types into "Subscribers"
SubscriberValues == {0, 100}

\* the fields of the manual form of yt_streamlit1.py other than the three
\* counters, as the operator fills them: each option of each selector occurs,
\* and the engagement rate typed in is 0 or 1/2
ManualProfiles ==
    { [engagement_rate      |-> IF i % 2 = 0 THEN Zero ELSE Rat(1, 2),
       watch_time_minutes   |-> IF i % 2 = 0 THEN 0 ELSE 5,
       video_length_minutes |-> IF i % 3 = 0 THEN 0 ELSE 5,
       subscribers          |-> IF i < 4 THEN 0 ELSE 100,
       category             |-> ManualCategoryOptions[i],
       country              |-> ManualCountryOptions[i],
       device               |-> ManualDeviceOptions[((i - 1) % 4) + 1]]
      : i \in 1..6 }

\* URLs pasted into the fetch form
videoId == <<"d", "Q", "w", "4", "w", "9", "W", "g", "X", "c", "Q">>

Urls == { << >>,
          <<"/", "w", "a", "t", "c", "h", "?", "v", "=">> \o videoId,
          <<"y", "o", "u", "t", "u", ".", "b", "e", "/">> \o videoId,
          <<"n", "o", "t", " ", "a", " ", "l", "i", "n", "k">> }

\* the domain of each input widget of yt_streamlit.py
WidgetDomain0(f) ==
    CASE f \in {"views", "likes", "comments"} -> Counts
      [] f \in {"watch_time", "video_length"} -> { RatOfInt(m) : m \in MinuteValues }
      [] f = "subscribers" -> SubscriberValues
      [] f = "category" -> Range(CategoryOptions0)
      [] f = "device" -> Range(DeviceOptions0)
      [] f = "country" -> Range(CountryOptions0)

-----------------------------------------------------------------------------
(* The state machine *)

AppInit ==
    /\ script \in {"yt_streamlit", "yt_streamlit1"}
    /\ mode = "Manual Input"
    /\ widgets = [views |-> 0, likes |-> 0, comments |-> 0,
                  watch_time |-> Zero, video_length |-> Zero, subscribers |-> 0,
                  category |-> CategoryOptions0[1], device |-> DeviceOptions0[1],
                  country |-> CountryOptions0[1]]
    /\ video_stats = None
    /\ selCountry = None /\ selCategory = None /\ selDevice = None
    /\ event = "load"
    /\ messages = << >>
    /\ calls = << >>
    /\ fetched = None

Init ==
    /\ AppInit
    /\ input = << >>
    /\ output = None

\* yt_streamlit.py: the operator changes one input; the rerun predicts nothing
ChangeWidget0 ==
    /\ script = "yt_streamlit"
    /\ \E f \in DOMAIN widgets : \E v \in WidgetDomain0(f) :
          /\ v # widgets[f]
          /\ widgets' = [widgets EXCEPT ![f] = v]
    /\ event' = "change_widget"
    /\ messages' = << >>
    /\ calls' = << >>
    /\ UNCHANGED << script, mode, video_stats, selCountry, selCategory, selDevice,
                    fetched, input, output >>

\* the row without its derived column: a mutation
Row0NoEngagementRate(w) ==
    [views                |-> w.views,
     likes                |-> w.likes,
     comments             |-> w.comments,
     watch_time_minutes   |-> w.watch_time,
     video_length_minutes |-> w.video_length,
     subscribers          |-> w.subscribers,
     category             |-> w.category,
     device               |-> w.device,
     country              |-> w.country]

\* the row yt_streamlit.py builds from its widgets
Row0(w) ==
    [views                |-> w.views,
     likes                |-> w.likes,
     comments             |-> w.comments,
     watch_time_minutes   |-> w.watch_time,
     video_length_minutes |-> w.video_length,
     subscribers          |-> w.subscribers,
     category             |-> w.category,
     device               |-> w.device,
     country              |-> w.country,
     engagement_rate      |-> engagement_rate(w.likes, w.comments, w.views)]

\* yt_streamlit.py: the operator clicks "Predict Revenue"
PredictRevenue0 ==
    /\ script = "yt_streamlit"
    /\ event' = "predict"
    /\ calls' = << Row0(widgets) >>
    /\ messages' = <<"prediction">>
    /\ UNCHANGED << script, mode, widgets, video_stats, selCountry, selCategory,
                    selDevice, fetched, input, output >>

\* yt_streamlit1.py: the operator switches the input mode.  Widgets of the
\* branch that is not run leave the page and lose their state.
SelectMode ==
    /\ script = "yt_streamlit1"
    /\ \E m \in {"Manual Input", "YouTube Link Input"} :
          /\ m # mode
          /\ mode' = m
          /\ IF m = "Manual Input"
             THEN /\ selCountry' = None /\ selCategory' = None /\ selDevice' = None
                  /\ calls' = << >>
                  /\ messages' = << >>
                  /\ UNCHANGED video_stats
             ELSE LinkRest(video_stats, selCountry, selCategory, selDevice, FALSE, << >>)
    /\ event' = "select_mode"
    /\ UNCHANGED << script, widgets, fetched, input, output >>

\* the row the manual form of yt_streamlit1.py builds
ManualRow(views, likes, comments, profile) ==
    [views                |-> views,
     likes                |-> likes,
     comments             |-> comments,
     watch_time_minutes   |-> profile.watch_time_minutes,
     video_length_minutes |-> profile.video_length_minutes,
     engagement_rate      |-> profile.engagement_rate,
     subscribers          |-> profile.subscribers,
     category             |-> profile.category,
     country              |-> profile.country,
     device               |-> profile.device]

\* yt_streamlit1.py: the operator fills the manual form and submits it
SubmitManual ==
    /\ script = "yt_streamlit1"
    /\ mode = "Manual Input"
    /\ \E views \in Counts, likes \in Counts, comments \in Counts,
          profile \in ManualProfiles :
          calls' = << ManualRow(views, likes, comments, profile) >>
    /\ event' = "submit_manual"
    /\ messages' = <<"prediction">>
    /\ UNCHANGED << script, mode, widgets, video_stats, selCountry, selCategory,
                    selDevice, fetched, input, output >>

NumericNames == {"views", "likes", "comments", "watch_time_minutes",
                 "video_length_minutes", "subscribers", "engagement_rate"}

\* the numeric fields of a feature dict
Numeric(d) == [f \in NumericNames |-> d[f]]

\* yt_streamlit1.py: the operator pastes a URL and presses "Fetch Video Stats"
SubmitLink ==
    /\ script = "yt_streamlit1"
    /\ mode = "YouTube Link Input"
    /\ \E url \in Urls :
          LET video_id == extract_video_id(url)
          IN  IF IsNone(video_id)
              THEN /\ LinkRest(OnFetchFailure(video_stats), selCountry, selCategory,
                               selDevice, FALSE, <<"invalid_url">>)
                   /\ UNCHANGED fetched
              ELSE \E api \in ApiResponses :
                     LET got == get_video_stats(Get(video_id), api)
                     IN  IF IsNone(got.data)
                         THEN /\ LinkRest(OnFetchFailure(video_stats), selCountry,
                                          selCategory, selDevice, FALSE,
                                          <<"video_id">> \o got.shown \o <<"fetch_failed">>)
                              /\ UNCHANGED fetched
                         ELSE LET data  == Get(got.data)
                                  stats == [data EXCEPT
                                              !.category = translate_category(data.category)]
                              IN  /\ LinkRest(Some(stats), selCountry, selCategory,
                                              selDevice, FALSE, <<"video_id", "fetched">>)
                                  /\ fetched' = Some(Numeric(data))
    /\ event' = "submit_link"
    /\ UNCHANGED << script, mode, widgets, input, output >>

\* yt_streamlit1.py: the operator picks another value in one of the three
\* selectboxes shown under the fetched statistics
ChangeCountry ==
    /\ script = "yt_streamlit1"
    /\ mode = "YouTube Link Input"
    /\ ~IsNone(video_stats)
    /\ \E c \in Range(LinkCountryOptions) :
          /\ c # Get(selCountry).value
          /\ LinkRest(video_stats, Pick(selCountry, c), selCategory, selDevice, FALSE, << >>)
    /\ event' = "customize"
    /\ UNCHANGED << script, mode, widgets, fetched, input, output >>

ChangeCategory ==
    /\ script = "yt_streamlit1"
    /\ mode = "YouTube Link Input"
    /\ ~IsNone(video_stats)
    /\ \E c \in Range(LinkCategoryOptions) :
          /\ c # Get(selCategory).value
          /\ LinkRest(video_stats, selCountry, Pick(selCategory, c), selDevice, FALSE, << >>)
    /\ event' = "customize"
    /\ UNCHANGED << script, mode, widgets, fetched, input, output >>

ChangeDevice ==
    /\ script = "yt_streamlit1"
    /\ mode = "YouTube Link Input"
    /\ ~IsNone(video_stats)
    /\ \E d \in Range(LinkDeviceOptions) :
          /\ d # Get(selDevice).value
          /\ LinkRest(video_stats, selCountry, selCategory, Pick(selDevice, d), FALSE, << >>)
    /\ event' = "customize"
    /\ UNCHANGED << script, mode, widgets, fetched, input, output >>

\* yt_streamlit1.py: the operator clicks "Predict Revenue" under the fetched statistics
PredictRevenueLink ==
    /\ script = "yt_streamlit1"
    /\ mode = "YouTube Link Input"
    /\ ~IsNone(video_stats)
    /\ LinkRest(video_stats, selCountry, selCategory, selDevice, TRUE, << >>)
    /\ event' = "predict"
    /\ UNCHANGED << script, mode, widgets, fetched, input, output >>

Next ==
    \/ ChangeWidget0
    \/ PredictRevenue0
    \/ SelectMode
    \/ SubmitManual
    \/ SubmitLink
    \/ ChangeCountry
    \/ ChangeCategory
    \/ ChangeDevice
    \/ PredictRevenueLink

Spec == Init /\ [][Next]_vars

-----------------------------------------------------------------------------
(* The helper functions on their own: the argument is drawn at the start,   *)
(* one action applies the function.                                         *)

\* pieces URLs are assembled from
UrlTokens ==
    { <<"/">>, <<"v", "=">>, <<"?">>, videoId,
      <<"w", "a", "t", "c", "h">>,
      <<"a", "t", "t", "r", "i", "b", "u", "t", "i", "o", "n", "_", "l", "i", "n", "k">> }

UrlInputs == { Concat(ts) : ts \in SeqsUpTo(UrlTokens, MaxUrlTokens) }

InitExtract == AppInit /\ input \in UrlInputs /\ output = None

ApplyExtract ==
    /\ IsNone(output)
    /\ output' = Some(extract_video_id(input))
    /\ UNCHANGED << appVars, input >>

SpecExtract == InitExtract /\ [][ApplyExtract]_vars

\* pieces duration strings are assembled from
DurationTokens ==
    { <<"-">>, <<"P">>, <<"T">>, <<"x">>, <<"5", "M">>, <<"3", "0", "S">>, <<"1", "H">>,
      <<"2", "D">> }

DurationInputs == { Concat(ts) : ts \in SeqsUpTo(DurationTokens, MaxDurTokens) }

InitDuration == AppInit /\ input \in DurationInputs /\ output = None

ApplyDuration ==
    /\ IsNone(output)
    /\ output' = Some(parse_duration(input))
    /\ UNCHANGED << appVars, input >>

SpecDuration == InitDuration /\ [][ApplyDuration]_vars

\* raw category identifiers: the platform's numeric codes and some that are none
CategoryCodes ==
    { "0", "1", "2", "3", "4", "5", "6", "7", "8", "9",
      "10", "11", "12", "13", "14", "15", "16", "17", "18", "19",
      "20", "21", "22", "23", "24", "25", "26", "27", "28", "29",
      "30", "31", "32", "33", "34", "35", "36", "37", "38", "39",
      "40", "41", "42", "43", "44", "99", "", "010", "Music", "-1" }

InitCategory == AppInit /\ input \in CategoryCodes /\ output = None

ApplyCategory ==
    /\ IsNone(output)
    /\ output' = Some(translate_category(input))
    /\ UNCHANGED << appVars, input >>

SpecCategory == InitCategory /\ [][ApplyCategory]_vars

\* the three counters: None when absent, else a number up to MaxStat
CounterInputs == [StatKeys -> {None} \cup { Some(n) : n \in 0..MaxStat }]

\* the statistics dict as the remote API renders it: counters as decimal strings
AsStatistics(counters) ==
    [k \in StatKeys |-> IF IsNone(counters[k]) THEN None ELSE Some(NatToStr(Get(counters[k])))]

InitEngagement == AppInit /\ input \in CounterInputs /\ output = None

\* yt_streamlit1.py: calc_engagement_rate on the statistics of the remote API
ApplyCalcEngagement ==
    /\ IsNone(output)
    /\ output' = Some(calc_engagement_rate(AsStatistics(input)))
    /\ UNCHANGED << appVars, input >>

\* yt_streamlit.py: the inline expression on the values of the three inputs
ApplyInlineEngagement ==
    /\ IsNone(output)
    /\ \A k \in StatKeys : ~IsNone(input[k])
    /\ output' = Some(Some(engagement_rate(Get(input["likeCount"]), Get(input["commentCount"]),
                                           Get(input["viewCount"]))))
    /\ UNCHANGED << appVars, input >>

NextEngagement == ApplyCalcEngagement \/ ApplyInlineEngagement

SpecEngagement == InitEngagement /\ [][NextEngagement]_vars

-----------------------------------------------------------------------------
(* Properties *)

Shown(tag) == tag \in Range(messages)

\* the engagement rate of row r is the one derived from its three counters
Derived(r) ==
    IF r.views > 0
    THEN /\ r.engagement_rate.den > 0
         /\ r.engagement_rate.num * r.views = (r.likes + r.comments) * r.engagement_rate.den
    ELSE r.engagement_rate = Zero

\* C1: in every record handed to model.predict, on whichever path, the
\* engagement rate equals (likes + comments) / views of that record when
\* views > 0 and 0 when views = 0.
C1_EngagementRateDerived ==
    \A i \in 1..Len(calls) : Derived(calls[i])

\* the number a counter input stands for: an absent counter counts as 0
CounterValue(counters, k) == IF IsNone(counters[k]) THEN 0 ELSE Get(counters[k])

\* C2: for all non-negative likes, comments and views the calculator returns a
\* number (it never fails on a zero divisor), equal to (likes + comments) / views
\* when views > 0 and exactly 0 when views = 0, absent counters counting as 0.
C2_EngagementRate ==
    ~IsNone(output) =>
        LET views    == CounterValue(input, "viewCount")
            likes    == CounterValue(input, "likeCount")
            comments == CounterValue(input, "commentCount")
            r        == Get(output)
        IN  /\ ~IsNone(r)
            /\ IF views > 0
               THEN Get(r).den > 0 /\ Get(r).num * views = (likes + comments) * Get(r).den
               ELSE Get(r) = Zero

\* C2 witness: views = 0, likes = 10, comments = 5, and the calculator answered 0
C2_Witness ==
    /\ ~IsNone(output)
    /\ input \in CounterInputs
    /\ CounterValue(input, "viewCount") = 0
    /\ CounterValue(input, "likeCount") = 10
    /\ CounterValue(input, "commentCount") = 5
    /\ output = Some(Some(Zero))

\* the 11-character video ids of a URL: exactly 11 id characters that follow
\* "v=" or "/" and are followed by the end of the URL or by another character
VideoIdsOf(url) ==
    { SubSeq(url, i, i + IdLen - 1) :
        i \in { k \in 2..Len(url) :
                  /\ k + IdLen - 1 <= Len(url)
                  /\ \A j \in k..(k + IdLen - 1) : url[j] \in IdChars
                  /\ (k + IdLen <= Len(url) => url[k + IdLen] \notin IdChars)
                  /\ \/ url[k - 1] = "/"
                     \/ k >= 3 /\ url[k - 2] = "v" /\ url[k - 1] = "=" } }

\* some 11 id characters follow "v=" or "/" somewhere in the URL
HasIdPattern(url) ==
    \E k \in 2..Len(url) :
        /\ k + IdLen - 1 <= Len(url)
        /\ \A j \in k..(k + IdLen - 1) : url[j] \in IdChars
        /\ \/ url[k - 1] = "/"
           \/ k >= 3 /\ url[k - 2] = "v" /\ url[k - 1] = "="

\* C3: applied to a URL that contains a video id, extract_video_id returns a
\* video id of that URL and no other string; applied to a string with no such
\* pattern (the empty string included) it returns None.
C3_ExtractReturnsTheId ==
    ~IsNone(output) =>
        LET r == Get(output)
        IN  /\ VideoIdsOf(input) # {} => ~IsNone(r) /\ Get(r) \in VideoIdsOf(input)
            /\ ~HasIdPattern(input) => IsNone(r)

FailedFetch == event = "submit_link" /\ (Shown("invalid_url") \/ Shown("fetch_failed"))

\* C4: a fetch submission that fails (no video id in the URL, or
\* get_video_stats returned None) leaves the stats record of the session
\* exactly as it was before the submission.
C4_FailedFetchKeepsStats ==
    [][FailedFetch' => video_stats' = video_stats]_vars

\* C4 witness: a lookup failed while an earlier record was in the session
C4_Witness ==
    /\ event = "submit_link"
    /\ Shown("fetch_failed")
    /\ Shown("api_error")
    /\ ~IsNone(video_stats)

PredictedFromLink == script = "yt_streamlit1" /\ event = "predict"

\* C5 as claimed: once Predict Revenue has run on the fetch path, the session
\* holds no video_stats record.
C5_DiscardedAfterPredict ==
    PredictedFromLink => IsNone(video_stats)

\* C5 as amended: Predict Revenue on the fetch path leaves the video_stats
\* record in the session, unchanged.
C5_RetainedAfterPredict ==
    [][PredictedFromLink' => ~IsNone(video_stats') /\ video_stats' = video_stats]_vars

\* C5 witness: a prediction was made from a fetched record
C5_Witness ==
    PredictedFromLink /\ Len(calls) = 1 /\ Shown("prediction")

\* C6: a prediction submission hands model.predict exactly one record, with
\* exactly the ten feature names; any other interaction hands it none.
C6_OneRowOnePredict ==
    IF event \in {"predict", "submit_manual"}
    THEN Len(calls) = 1 /\ DOMAIN calls[1] = FeatureNames
    ELSE calls = << >>

\* C6 witness: a prediction submitted on the fetch path, from a fetched record
C6_Witness ==
    /\ PredictedFromLink
    /\ Len(calls) = 1
    /\ calls[1].views = 4

\* C7: every category code has a label among the six categories; the codes of
\* the table map to their listed label, every other string to Entertainment.
C7_CategoryTotal ==
    ~IsNone(output) =>
        LET label == Get(output)
        IN  /\ label \in Categories
            /\ input = "1" => label = "Entertainment"
            /\ input = "2" => label = "Tech"
            /\ input = "10" => label = "Music"
            /\ input = "20" => label = "Gaming"
            /\ input = "22" => label = "Lifestyle"
            /\ input = "23" => label = "Entertainment"
            /\ input = "24" => label = "Entertainment"
            /\ input = "27" => label = "Education"
            /\ input = "28" => label = "Tech"
            /\ input \notin {"1", "2", "10", "20", "22", "23", "24", "27", "28"}
                 => label = "Entertainment"

\* C7 witness: an unknown code has been translated
C7_Witness ==
    input = "99" /\ output = Some("Entertainment")

\* C8: parse_duration returns a non-negative number of minutes for any string,
\* 0 when the string is no duration, and 5.5 for "PT5M30S".
C8_DurationNonNegative ==
    ~IsNone(output) =>
        LET minutes == Get(output)
        IN  /\ RatNonNeg(minutes)
            /\ IsNone(isodate_total_seconds(input)) => minutes = Zero
            /\ input = <<"P", "T", "5", "M", "3", "0", "S">> => minutes = Rat(11, 2)

\* C9: on the fetch path the record handed to model.predict has its category,
\* device and country in the supported sets, whatever the remote API returned.
C9_EnumeratedFieldsValid ==
    PredictedFromLink =>
        \A i \in 1..Len(calls) :
            /\ calls[i].category \in Categories
            /\ calls[i].device \in Devices
            /\ calls[i].country \in Countries

\* C9 witness: a prediction from a record whose channel reported a country
\* outside the list (the channel with 7 subscribers is the one located in FR)
C9_Witness ==
    /\ PredictedFromLink
    /\ Len(calls) = 1
    /\ calls[1].subscribers = 7

\* C10: the numeric fields of the stored record, and of the record handed to
\* model.predict on the fetch path, are those computed at fetch time, whatever
\* the operator selected since.
C10_NumericFieldsFrozen ==
    /\ ~IsNone(video_stats) => ~IsNone(fetched) /\ Numeric(Get(video_stats)) = Get(fetched)
    /\ PredictedFromLink =>
          \A i \in 1..Len(calls) : Numeric(calls[i]) = Get(fetched)

\* C10 witness: a prediction after the operator changed all three selectors
C10_Witness ==
    /\ PredictedFromLink
    /\ Len(calls) = 1
    /\ calls[1].views = 4
    /\ calls[1].device = "TV"
    /\ calls[1].country = "DE"
    /\ calls[1].category = "Music"

====
